---- MODULE Spec2Model ----
(***************************************************************************)
(* Model of custom_components/econet300/sensor.py: the sensor factories    *)
(* (create_sensors and its three callers), the platform entry point        *)
(* async_setup_entry and the value synchronisation of EconetSensor.        *)
(***************************************************************************)
EXTENDS Integers, Sequences, FiniteSets, TLC

VARIABLES
    data,            \* coordinator.data: [regParams, sysParams], each a dict
    valueProcessor,  \* const.ENTITY_VALUE_PROCESSOR: dict key -> transform
    entities,        \* the entities handed to async_add_entities, in order
    addCalls,        \* number of calls of the async_add_entities callback
    pc,              \* "init" before async_setup_entry ran, "done" after
    ret              \* outcome of the most recent factory or setup call

vars == <<data, valueProcessor, entities, addCalls, pc, ret>>

-----------------------------------------------------------------------------
(* Bounds of the model *)

\* largest number of entries of regParams and sysParams together
MaxEntries == 3
\* largest number of entries of the snapshot a direct create_sensors call sees
MaxGenEntries == 2
\* longest key list handed to a direct create_sensors call
MaxLen == 2
\* largest number of _sync_state calls on one entity
MaxSync == 2

-----------------------------------------------------------------------------
(* Python values.  A value is a record [t, n]: None, an int n, or the      *)
(* float n/10 (the only floats the module produces come from x / 10).      *)

None == [t |-> "none", n |-> 0]
IntVal(i) == [t |-> "int", n |-> i]
Tenths(i) == [t |-> "float", n |-> i]

\* raw values a snapshot may hold for a key (null included), the non-null
\* ones, and the raw values pushed by updates
SnapshotVals == {None, IntVal(0), IntVal(5)}
NonNullVals == {IntVal(0), IntVal(5)}
RawVals == {IntVal(5), IntVal(55)}

\* bool(value): None and 0 are falsy
truthy(value) == value.t # "none" /\ value.n # 0

\* a or b
py_or(a, b) == IF truthy(a) THEN a ELSE b

\* dict.get(key): None for a missing key
dict_get(d, key) == IF key \in DOMAIN d THEN d[key] ELSE None

\* the transforms: lambda x: x and lambda x: x / 10
identity(x) == x
div10(x) == Tenths(x.n)
apply_process_val(process_val, x) ==
    IF process_val = "div10" THEN div10(x) ELSE identity(x)

-----------------------------------------------------------------------------
(* Static tables of const.py *)

GATE == "moduleLambdaSoftVer"
SENSOR_MAP_KEY ==
    ("_default" :> <<"tempCO">>) @@ ("lambda" :> <<"lambdaLevel">>)
SENSOR_MIXER_KEY == ("1" :> {"mixerTemp1", "mixerSet1"})
\* SENSOR_MIXER_KEY.keys(), in the dict's insertion order
SENSOR_MIXER_KEY_keys == <<"1">>

Keys == {"tempCO", "lambdaLevel", "1", "mixerTemp1", "mixerSet1", GATE}

\* the contents ENTITY_VALUE_PROCESSOR may have: no entry, or a scaling
\* transform for the controller key
ProcessorTables == {<<>>, ("tempCO" :> "div10")}

-----------------------------------------------------------------------------
(* Entities *)

\* EconetSensorEntityDescription: key and process_val (the display metadata
\* looked up in the other const.py tables plays no part in the factories)
\* create_entity_description(key, process_val): the process_val argument is
\* not used; the descriptor's transform is ENTITY_VALUE_PROCESSOR.get(key,
\* lambda x: x)
create_entity_description(tbl, key, process_val) ==
    [key |-> key,
     process_val |-> IF key \in DOMAIN tbl THEN tbl[key] ELSE "identity"]

\* EconetSensor.__init__: _attr_native_value = None.  writes counts the
\* async_write_ha_state calls, last_raw is the argument of the latest
\* _sync_state (None before the first).
EconetSensor(entity_class, entity_description) ==
    [entity_description |-> entity_description,
     cls |-> entity_class,
     native_value |-> None,
     writes |-> 0,
     last_raw |-> None]

\* entity_class(entity_desc, coordinator, api) raises TypeError when the
\* class constructor has a fourth required parameter (MixerSensor: idx)
constructor_raises(entity_class) == entity_class = "MixerSensor"

EntityClasses == {"EconetSensor", "MixerSensor", "LambdaSensors"}

-----------------------------------------------------------------------------
(* create_sensors *)

\* variant: the first value that is not None (0 in regParams is kept)
resolve_value_coalesce(reg_data, sys_data, key) ==
    IF dict_get(reg_data, key) # None THEN dict_get(reg_data, key)
    ELSE dict_get(sys_data, key)

\* value = reg_data.get(key) or sys_data.get(key)
resolve_value(reg_data, sys_data, key) ==
    py_or(dict_get(reg_data, key), dict_get(sys_data, key))

\* variant: the None check is missing
value_is_none_never(value) == FALSE

\* if value is None: ... continue
value_is_none(value) == value = None

\* variant: the sub-keys are resolved like the keys, sysParams included
mixer_filter_fallback(d, key) ==
    \A k \in (IF key \in DOMAIN SENSOR_MIXER_KEY THEN SENSOR_MIXER_KEY[key] ELSE {}) :
        resolve_value(d.regParams, d.sysParams, k) # None

\* the inner filter of create_mixer_sensors
mixer_filter(d, key) ==
    \A k \in (IF key \in DOMAIN SENSOR_MIXER_KEY THEN SENSOR_MIXER_KEY[key] ELSE {}) :
        dict_get(d.regParams, k) # None

\* filter_condition(key): the default lambda key: True, or mixer_filter
filter_condition(filt, d, key) ==
    IF filt = "mixer_filter" THEN mixer_filter(d, key) ELSE TRUE

\* variant: the entity is inserted at the front
append_entity_front(es, e) == <<e>> \o es

\* entities.append(entity)
append_entity(es, e) == Append(es, e)

\* The result of a call: the returned list, whether the call raised (and at
\* which key), and the value resolved for every key that passed the filter.
NoResult == [out |-> <<>>, raised |-> FALSE, raised_key |-> "", resolved |-> <<>>]

RECURSIVE create_sensors_loop(_, _, _, _, _, _, _, _)
create_sensors_loop(d, tbl, keys, i, entity_class, process_val, filt, acc) ==
    IF i > Len(keys) THEN acc
    ELSE LET key == keys[i]
             value == resolve_value(d.regParams, d.sysParams, key)
             acc2 == [acc EXCEPT !.resolved = Append(@, <<key, value>>)]
         IN  IF ~filter_condition(filt, d, key)
             THEN create_sensors_loop(d, tbl, keys, i + 1, entity_class, process_val, filt, acc)
             ELSE IF value_is_none(value)
             THEN create_sensors_loop(d, tbl, keys, i + 1, entity_class, process_val, filt, acc2)
             ELSE IF constructor_raises(entity_class)
             THEN [acc2 EXCEPT !.out = <<>>, !.raised = TRUE, !.raised_key = key]
             ELSE create_sensors_loop(d, tbl, keys, i + 1, entity_class, process_val, filt,
                    [acc2 EXCEPT !.out = append_entity(@,
                        EconetSensor(entity_class,
                                     create_entity_description(tbl, key, process_val)))])

create_sensors(d, tbl, keys, entity_class, process_val, filt) ==
    create_sensors_loop(d, tbl, keys, 1, entity_class, process_val, filt, NoResult)

create_controller_sensors(d, tbl) ==
    create_sensors(d, tbl, SENSOR_MAP_KEY["_default"], "EconetSensor", "identity", "accept_all")

create_mixer_sensors(d, tbl) ==
    create_sensors(d, tbl, SENSOR_MIXER_KEY_keys, "MixerSensor", "identity", "mixer_filter")

\* variant: the gating key is read from regParams
lambda_module_missing_reg(d) == dict_get(d.regParams, GATE) = None

\* coordinator.data.get("sysParams", {}).get("moduleLambdaSoftVer") is None
lambda_module_missing(d) == dict_get(d.sysParams, GATE) = None

create_lambda_sensors(d, tbl) ==
    IF lambda_module_missing(d) THEN NoResult
    ELSE create_sensors(d, tbl, SENSOR_MAP_KEY["lambda"], "LambdaSensors", "div10", "accept_all")

\* async_gather_entities: the three lists concatenated; an exception of a
\* factory propagates
async_gather_entities(d, tbl) ==
    LET c == create_controller_sensors(d, tbl)
        m == create_mixer_sensors(d, tbl)
        l == create_lambda_sensors(d, tbl)
    IN  IF c.raised THEN c
        ELSE IF m.raised THEN m
        ELSE IF l.raised THEN l
        ELSE [NoResult EXCEPT !.out = c.out \o m.out \o l.out]

-----------------------------------------------------------------------------
(* Snapshots *)

\* the dict `name` of the snapshot given by the assignment a of values to
\* (dict, key) pairs
SnapshotDict(a, name) ==
    [k \in {k \in Keys : <<name, k>> \in DOMAIN a} |-> a[<<name, k>>]]

\* the snapshots over the keys K with at most n entries in both dicts
\* together, the values taken from V
Snapshots(K, n, V) ==
    UNION {{[regParams |-> SnapshotDict(a, "regParams"),
             sysParams |-> SnapshotDict(a, "sysParams")] : a \in [s -> V]}
           : s \in {s \in SUBSET ({"regParams", "sysParams"} \X K) : Cardinality(s) <= n}}

\* the keys of a direct create_sensors call: a plain key and a mixer key
GenKeys == {"tempCO", "1"}

\* the key lists of length at most n
KeyLists(n) == UNION {[1..m -> GenKeys] : m \in 0..n}

-----------------------------------------------------------------------------
(* Calls and their recorded outcome *)

Outcome(op, keys, entity_class, process_val, filt, r, value) ==
    [op |-> op, keys |-> keys, cls |-> entity_class, process_val |-> process_val,
     filt |-> filt, out |-> r.out, raised |-> r.raised, raised_key |-> r.raised_key,
     resolved |-> r.resolved, value |-> value]

NoCall == Outcome("none", <<>>, "", "", "", NoResult, "")

ReturnValue(r) == IF r.raised THEN "TypeError" ELSE "list"

\* a direct call of create_sensors
CallCreateSensors ==
    /\ ret.op = "none"
    /\ \E keys \in KeyLists(MaxLen), entity_class \in EntityClasses,
       process_val \in {"identity", "div10"}, filt \in {"accept_all", "mixer_filter"} :
        LET r == create_sensors(data, valueProcessor, keys, entity_class, process_val, filt)
        IN  ret' = Outcome("create_sensors", keys, entity_class, process_val, filt, r,
                           ReturnValue(r))
    /\ UNCHANGED <<data, valueProcessor, entities, addCalls, pc>>

CallCreateControllerSensors ==
    LET r == create_controller_sensors(data, valueProcessor)
    IN  /\ ret' = Outcome("create_controller_sensors", SENSOR_MAP_KEY["_default"],
                          "EconetSensor", "identity", "accept_all", r, ReturnValue(r))
        /\ UNCHANGED <<data, valueProcessor, entities, addCalls, pc>>

CallCreateMixerSensors ==
    LET r == create_mixer_sensors(data, valueProcessor)
    IN  /\ ret' = Outcome("create_mixer_sensors", SENSOR_MIXER_KEY_keys,
                          "MixerSensor", "identity", "mixer_filter", r, ReturnValue(r))
        /\ UNCHANGED <<data, valueProcessor, entities, addCalls, pc>>

CallCreateLambdaSensors ==
    LET r == create_lambda_sensors(data, valueProcessor)
    IN  /\ ret' = Outcome("create_lambda_sensors", SENSOR_MAP_KEY["lambda"],
                          "LambdaSensors", "div10", "accept_all", r, ReturnValue(r))
        /\ UNCHANGED <<data, valueProcessor, entities, addCalls, pc>>

\* async_setup_entry, invoked once by the host: gather, register, return True
async_setup_entry ==
    /\ pc = "init"
    /\ pc' = "done"
    /\ LET r == async_gather_entities(data, valueProcessor)
       IN  IF r.raised
           THEN /\ ret' = Outcome("async_setup_entry", <<>>, "", "", "", r, "TypeError")
                /\ UNCHANGED <<entities, addCalls>>
           ELSE /\ entities' = r.out
                /\ addCalls' = addCalls + 1
                /\ ret' = Outcome("async_setup_entry", <<>>, "", "", "", r, "True")
    /\ UNCHANGED <<data, valueProcessor>>

\* variant: the value is stored by the first call only
sync_value_sticky(e, value) ==
    [e EXCEPT !.native_value = IF e.writes = 0
                               THEN apply_process_val(e.entity_description.process_val, value)
                               ELSE @,
              !.writes = @ + 1,
              !.last_raw = value]

\* EconetSensor._sync_state(value)
sync_value(e, value) ==
    [e EXCEPT !.native_value = apply_process_val(e.entity_description.process_val, value),
              !.writes = @ + 1,
              !.last_raw = value]

sync_state ==
    \E i \in 1..Len(entities), value \in RawVals :
        /\ entities[i].writes < MaxSync
        /\ entities' = [entities EXCEPT ![i] = sync_value(@, value)]
        /\ UNCHANGED <<data, valueProcessor, addCalls, pc, ret>>

-----------------------------------------------------------------------------
(* Specifications *)

InitCommon ==
    /\ valueProcessor \in ProcessorTables
    /\ entities = <<>>
    /\ addCalls = 0
    /\ pc = "init"
    /\ ret = NoCall

\* the platform: setup once, then value updates; the factories may be called
\* at any time
Init ==
    /\ data \in Snapshots(Keys, MaxEntries, NonNullVals)
    /\ InitCommon

Next ==
    \/ CallCreateControllerSensors
    \/ CallCreateMixerSensors
    \/ CallCreateLambdaSensors
    \/ async_setup_entry
    \/ sync_state

Spec == Init /\ [][Next]_vars

\* the three specialised factories on every snapshot, null values included
InitFactory ==
    /\ data \in Snapshots(Keys, MaxEntries, SnapshotVals)
    /\ InitCommon

NextFactory ==
    \/ CallCreateControllerSensors
    \/ CallCreateMixerSensors
    \/ CallCreateLambdaSensors

SpecFactory == InitFactory /\ [][NextFactory]_vars

\* direct calls of the generic factory
InitGeneric ==
    /\ data \in Snapshots(GenKeys \cup SENSOR_MIXER_KEY["1"], MaxGenEntries, SnapshotVals)
    /\ InitCommon

NextGeneric == CallCreateSensors

SpecGeneric == InitGeneric /\ [][NextGeneric]_vars

-----------------------------------------------------------------------------
(* Properties *)

\* the keys of a list of entities
OutKeys(out) == [i \in 1..Len(out) |-> out[i].entity_description.key]
Range(f) == {f[i] : i \in DOMAIN f}
NoDuplicates(f) == \A i, j \in DOMAIN f : f[i] = f[j] => i = j
NonNull(d, key) == dict_get(d, key) # None

\* s is a subsequence of t: a strictly increasing embedding exists
IsSubsequence(s, t) ==
    \E f \in [1..Len(s) -> 1..Len(t)] :
        /\ \A i \in 1..Len(s) : t[f[i]] = s[i]
        /\ \A i, j \in 1..Len(s) : i < j => f[i] < f[j]

\* C1: every entity a factory call returns is for a key that has a non-null
\* value in regParams or in sysParams of the snapshot the call read.
C1_OnlyResolvableKeys ==
    \A i \in 1..Len(ret.out) :
        \/ NonNull(data.regParams, ret.out[i].entity_description.key)
        \/ NonNull(data.sysParams, ret.out[i].entity_description.key)

\* a call that returned an entity and skipped a key null in both dicts
C1_Witness ==
    /\ ret.op = "create_sensors"
    /\ Len(ret.out) = 1
    /\ \E i \in 1..Len(ret.keys) :
        /\ ~NonNull(data.regParams, ret.keys[i])
        /\ ~NonNull(data.sysParams, ret.keys[i])
        /\ filter_condition(ret.filt, data, ret.keys[i])

\* C2 (as claimed): a key that passes the filter and has a non-null value in
\* regParams or sysParams (0 included) gets an entity in the returned list.
C2_EveryNonNullKeyCreated ==
    (ret.op = "create_sensors" /\ ~ret.raised) =>
        \A i \in 1..Len(ret.keys) :
            (/\ filter_condition(ret.filt, data, ret.keys[i])
             /\ (NonNull(data.regParams, ret.keys[i]) \/ NonNull(data.sysParams, ret.keys[i])))
            => ret.keys[i] \in Range(OutKeys(ret.out))

\* C3: for a key with regParams value 0 and a non-null sysParams value, the
\* value create_sensors resolves is the sysParams value, and the key is
\* included on it (the entity is constructed).
C3_ZeroFallsThrough ==
    \A i \in 1..Len(ret.resolved) :
        LET key == ret.resolved[i][1]
            value == ret.resolved[i][2]
        IN  (dict_get(data.regParams, key) = IntVal(0) /\ NonNull(data.sysParams, key))
            => /\ value = dict_get(data.sysParams, key)
               /\ (key \in Range(OutKeys(ret.out)) \/ ret.raised_key = key)

\* regParams 0, sysParams 5: resolved to 5 and the entity returned
C3_Witness ==
    /\ ret.op = "create_sensors"
    /\ \E i \in 1..Len(ret.resolved) :
        /\ dict_get(data.regParams, ret.resolved[i][1]) = IntVal(0)
        /\ dict_get(data.sysParams, ret.resolved[i][1]) = IntVal(5)
        /\ ret.resolved[i][2] = IntVal(5)
        /\ ret.resolved[i][1] \in Range(OutKeys(ret.out))

\* C8: the returned list is no longer than keys, its keys are a subsequence
\* of keys, and without duplicates in keys there are none in the result.
C8_OrderedSubsequence ==
    (ret.op = "create_sensors" /\ ~ret.raised) =>
        /\ Len(ret.out) <= Len(ret.keys)
        /\ IsSubsequence(OutKeys(ret.out), ret.keys)
        /\ (NoDuplicates(ret.keys) => NoDuplicates(OutKeys(ret.out)))

\* two entities for two different keys returned
C8_Witness ==
    /\ ret.op = "create_sensors"
    /\ Len(ret.out) = 2
    /\ ret.out[1].entity_description.key # ret.out[2].entity_description.key

\* C4: create_lambda_sensors returns the empty list when moduleLambdaSoftVer
\* is missing or null in sysParams, whatever values the lambda keys have;
\* otherwise it returns one entity for each lambda key that resolves to a
\* value, in the order of the lambda key set.
C4_LambdaGated ==
    ret.op = "create_lambda_sensors" =>
        /\ ~ret.raised
        /\ ~NonNull(data.sysParams, GATE) => ret.out = <<>>
        /\ NonNull(data.sysParams, GATE) =>
            OutKeys(ret.out) =
                SelectSeq(SENSOR_MAP_KEY["lambda"],
                          LAMBDA k : \/ truthy(dict_get(data.regParams, k))
                                     \/ NonNull(data.sysParams, k))

\* the gating key is absent from sysParams (though present in regParams), a
\* lambda key has a value, and the call returned the empty list
C4_Witness ==
    /\ ret.op = "create_lambda_sensors"
    /\ ~NonNull(data.sysParams, GATE)
    /\ NonNull(data.regParams, GATE)
    /\ \E i \in 1..Len(SENSOR_MAP_KEY["lambda"]) :
        truthy(dict_get(data.sysParams, SENSOR_MAP_KEY["lambda"][i]))
    /\ ret.out = <<>>

\* C5 (as claimed): after a _sync_state(raw) on an entity created by
\* create_lambda_sensors its value is raw / 10.
C5_LambdaValueDividedBy10 ==
    \A i \in 1..Len(entities) :
        (entities[i].cls = "LambdaSensors" /\ entities[i].writes > 0)
        => entities[i].native_value = div10(entities[i].last_raw)

\* C6: create_mixer_sensors returns no entity for a mixer key one of whose
\* sub-keys is null or missing in regParams, and does not get as far as
\* constructing one, whatever the mixer key's own value and whatever
\* sysParams holds for the sub-key.
C6_MixerNeedsAllSubKeys ==
    ret.op = "create_mixer_sensors" =>
        \A key \in DOMAIN SENSOR_MIXER_KEY :
            (\E k \in SENSOR_MIXER_KEY[key] : ~NonNull(data.regParams, k))
            => /\ key \notin Range(OutKeys(ret.out))
               /\ ret.raised_key # key

\* the mixer key has a value, one sub-key is null in regParams but has a
\* value in sysParams, and the call returned without an entity
C6_Witness ==
    /\ ret.op = "create_mixer_sensors"
    /\ \E key \in DOMAIN SENSOR_MIXER_KEY :
        /\ truthy(dict_get(data.regParams, key))
        /\ \E k \in SENSOR_MIXER_KEY[key] :
            /\ ~NonNull(data.regParams, k)
            /\ truthy(dict_get(data.sysParams, k))
    /\ ~ret.raised
    /\ ret.out = <<>>

\* C7 (as claimed): for a mixer key all of whose sub-keys have non-null
\* values in regParams, create_mixer_sensors returns exactly one entity.
C7_OneEntityPerAvailableMixer ==
    ret.op = "create_mixer_sensors" =>
        \A key \in DOMAIN SENSOR_MIXER_KEY :
            (\A k \in SENSOR_MIXER_KEY[key] : NonNull(data.regParams, k))
            => /\ ~ret.raised
               /\ Cardinality({i \in 1..Len(ret.out) : OutKeys(ret.out)[i] = key}) = 1

\* C9 (as claimed): once async_setup_entry has run, it has called
\* async_add_entities exactly once, with the controller, mixer and lambda
\* entities in that order, and returned True without raising.
C9_SetupNeverRaises ==
    pc = "done" =>
        /\ addCalls = 1
        /\ ret.op = "async_setup_entry" =>
            /\ ret.value = "True"
            /\ entities = create_controller_sensors(data, valueProcessor).out
                          \o create_mixer_sensors(data, valueProcessor).out
                          \o create_lambda_sensors(data, valueProcessor).out

\* C10: an entity's value is null until its first _sync_state and afterwards
\* the descriptor's transform of the latest raw value; a step changes an
\* existing entity only by one _sync_state of that entity, which signals the
\* host once and leaves the descriptor and every other entity alone.
C10_ValueInv ==
    \A i \in 1..Len(entities) :
        /\ entities[i].writes = 0 => entities[i].native_value = None
        /\ entities[i].writes > 0 =>
            entities[i].native_value =
                apply_process_val(entities[i].entity_description.process_val,
                                  entities[i].last_raw)

C10_Frame ==
    \A i \in 1..Len(entities) :
        /\ i <= Len(entities')
        /\ \/ entities'[i] = entities[i]
           \/ /\ entities'[i].entity_description = entities[i].entity_description
              /\ entities'[i].cls = entities[i].cls
              /\ entities'[i].writes = entities[i].writes + 1
              /\ \A j \in 1..Len(entities) : j # i => entities'[j] = entities[j]

\* C10: the value invariant in every state and the frame condition on every
\* step
C10_SyncIsOnlyMutation == [](C10_ValueInv) /\ [][C10_Frame]_vars

\* two registered entities, the first synchronised twice to a scaled value,
\* the second never, and a factory called afterwards
C10_Witness ==
    /\ Len(entities) = 2
    /\ entities[1].writes = 2
    /\ entities[1].native_value = Tenths(55)
    /\ entities[2].writes = 0
    /\ entities[2].native_value = None
    /\ ret.op = "create_lambda_sensors"

====
